---- MODULE Spec2Model ----
(***************************************************************************)
(* Tower Builder: the gameplay state machine of src/src/game.cpp           *)
(* (Game::Update and everything it calls), with the Tower stack and the    *)
(* ScoreHistory linked list it owns.                                       *)
(*                                                                         *)
(* Numbers.  The code computes positions in float.  Here a position is an  *)
(* integer number of pixels and the frame time an integer number of        *)
(* 1/TicksPerSecond seconds; blockSpeed is always a multiple of            *)
(* TicksPerSecond (150 + 15k), so every product blockSpeed * deltaTime is  *)
(* an integer and every float operation of the code is exact on the values *)
(* the model visits (all are integers far below 2^24; originalWidth * 0.1f *)
(* is compared against an integer, and accuracy * 10 is truncated to the   *)
(* same integer as floor(10 * overlapWidth / originalWidth)).              *)
(***************************************************************************)
EXTENDS Integers, Sequences, FiniteSets, TLC

\* ---------------------------------------------------------------- constants
BLOCK_HEIGHT == 30
INITIAL_BLOCK_WIDTH == 200
INITIAL_SPEED == 150
SPEED_INCREMENT == 15
SCREEN_WIDTH == 800
SCREEN_HEIGHT == 600
PERFECT_THRESHOLD == 5
PaletteSize == 10
BaseOffset == 100
PreviewDepth == 3
SpeedPeriod == 5
\* deltaTime is counted in 1/TicksPerSecond seconds: every blockSpeed the game
\* reaches is INITIAL_SPEED + k * SPEED_INCREMENT, a multiple of it
TicksPerSecond == SPEED_INCREMENT

\* ------------------------------------------------------------------- bounds
\* Spec: every key combination, several games, a coarse grid of positions.
\* frame time of a moving frame, in thirds of a second
FrameSteps == 3
\* no drop is requested once the tower holds this many blocks
MaxHeight == 6
\* no restart is requested once this many games are in the history
MaxGames == 2
\* SpecFine: one uninterrupted game (drop key only) on a fine grid.
FineFrameTime == 3
FineMaxHeight == 6
\* SpecHistory: the score log on its own; at most MaxLog entries, scores in
\* 0..MaxScore, heights in 0..MaxEntryHeight, queries for the top 0..MaxN.
MaxLog == 3
MaxScore == 2
MaxEntryHeight == 1
MaxN == 4

\* GetFrameTime() of a moving frame of Spec, in 1/TicksPerSecond seconds
FrameTime == (TicksPerSecond \div 3) * FrameSteps

VARIABLES tower, blockQueue, scoreHistory, currentBlock, gameOver, isPaused,
          score, consecutivePerfects, blockSpeed, direction,
          lastKeys, lastEvent

gameVars == <<tower, blockQueue, scoreHistory, currentBlock, gameOver,
              isPaused, score, consecutivePerfects, blockSpeed, direction>>
vars == <<tower, blockQueue, scoreHistory, currentBlock, gameOver, isPaused,
          score, consecutivePerfects, blockSpeed, direction,
          lastKeys, lastEvent>>

\* ------------------------------------------------------------------ helpers
Max(a, b) == IF a >= b THEN a ELSE b
Min(a, b) == IF a <= b THEN a ELSE b
Abs(a) == IF a < 0 THEN -a ELSE a

\* Block(x, y, width, height, color, speed): isMoving(true)
Block(x, y, width, height, color, speed) ==
    [x |-> x, y |-> y, width |-> width, height |-> height,
     color |-> color, speed |-> speed, isMoving |-> TRUE]

\* Block(): the default-constructed currentBlock member
DefaultBlock ==
    [x |-> 0, y |-> 0, width |-> 0, height |-> 0,
     color |-> 0, speed |-> 0, isMoving |-> FALSE]

GetLeft(b) == b.x
GetRight(b) == b.x + b.width
SetPosition(b, x, y) == [b EXCEPT !.x = x, !.y = y]
GetBlockColor(index) == index % PaletteSize

\* Tower: std::stack plus the height counter (bottom of the stack first)
EmptyTower == [towerStack |-> <<>>, height |-> 0]
Push(t, b) == [towerStack |-> Append(t.towerStack, b), height |-> t.height + 1]
IsEmpty(t) == t.towerStack = <<>>
GetHeight(t) == t.height
Top(t) == t.towerStack[Len(t.towerStack)]
Clear(t) == [towerStack |-> <<>>, height |-> 0]

\* ScoreHistory: the linked list, head first, plus the count
EmptyHistory == [list |-> <<>>, count |-> 0]
AddScore(h, s, ht) ==
    [list |-> <<[score |-> s, height |-> ht]>> \o h.list, count |-> h.count + 1]
GetCount(h) == h.count
\* Clear(): DeleteList, head = nullptr, count = 0
ClearList(h) == [list |-> <<>>, count |-> 0]

\* GetBestScore(): the traversal from the head, best starting at 0
RECURSIVE ScanBestScore(_, _)
ScanBestScore(nodes, best) ==
    IF nodes = <<>> THEN best
    ELSE ScanBestScore(Tail(nodes),
                       IF Head(nodes).score > best THEN Head(nodes).score ELSE best)
GetBestScore(h) == IF h.list = <<>> THEN 0 ELSE ScanBestScore(h.list, 0)

\* GetBestHeight(): the same traversal over the heights
RECURSIVE ScanBestHeight(_, _)
ScanBestHeight(nodes, best) ==
    IF nodes = <<>> THEN best
    ELSE ScanBestHeight(Tail(nodes),
                        IF Head(nodes).height > best THEN Head(nodes).height ELSE best)
GetBestHeight_mut(h) ==
    IF h.list = <<>> THEN 0
    ELSE LET top == GetBestScore(h)
             i == CHOOSE k \in 1..Len(h.list) : h.list[k].score >= top
         IN h.list[i].height
GetBestHeight(h) == IF h.list = <<>> THEN 0 ELSE ScanBestHeight(h.list, 0)

\* GetTopScores(n) of scorehistory.cpp.  The comparator handed to std::sort:
ScoreBefore_mut(a, b) == a.score < b.score
ScoreBefore(a, b) == a.score > b.score
\* std::sort leaves the order of entries the comparator does not separate
\* unspecified: every arrangement of the vector in which no later element
\* comes before an earlier one is a possible outcome.
SortOutcomes(v) ==
    LET n == Len(v)
        perms == {p \in [1..n -> 1..n] : \A i, j \in 1..n : i # j => p[i] # p[j]}
    IN {[i \in 1..n |-> v[p[i]]] :
           p \in {q \in perms :
                     \A i, j \in 1..n : i < j => ~ScoreBefore(v[q[j]], v[q[i]])}}
\* the text built from one sorted vector: the header with min(n, size) and
\* one numbered line per listed entry
FormatTop(sorted, n) ==
    LET shown == Min(n, Len(sorted))
    IN [text |-> "Top Scores:", top |-> shown,
        lines |-> [i \in 1..shown |->
                     [rank |-> i, score |-> sorted[i].score,
                      height |-> sorted[i].height]]]
NoGamesPlayed == [text |-> "No games played yet!", top |-> 0, lines |-> <<>>]
\* the strings GetTopScores(n) can return, one per outcome of the sort
GetTopScores(h, n) ==
    IF h.list = <<>> THEN {NoGamesPlayed}
    ELSE {FormatTop(sorted, n) : sorted \in SortOutcomes(h.list)}

\* The Game object as one record, so that the private methods compose as
\* functions from Game state to Game state.
Game ==
    [tower |-> tower, blockQueue |-> blockQueue, scoreHistory |-> scoreHistory,
     currentBlock |-> currentBlock, gameOver |-> gameOver, isPaused |-> isPaused,
     score |-> score, consecutivePerfects |-> consecutivePerfects,
     blockSpeed |-> blockSpeed, direction |-> direction]

\* ------------------------------------------------- Game's private methods
\* GenerateUpcomingBlocks(count): the loop, one block per iteration
RECURSIVE GenerateUpcomingBlocks(_, _)
GenerateUpcomingBlocks(g, count) ==
    IF count <= 0 THEN g
    ELSE LET width == IF IsEmpty(g.tower) THEN INITIAL_BLOCK_WIDTH
                      ELSE Top(g.tower).width
             newBlock == Block(0, 0, width, BLOCK_HEIGHT,
                               GetBlockColor(GetHeight(g.tower) + Len(g.blockQueue)),
                               g.blockSpeed)
         IN GenerateUpcomingBlocks(
                [g EXCEPT !.blockQueue = Append(g.blockQueue, newBlock)],
                count - 1)

SpawnNextBlock_mutSpeed(g) ==
    LET g1 == IF g.blockQueue = <<>> THEN GenerateUpcomingBlocks(g, 1) ELSE g
        front == Head(g1.blockQueue)
        yPos == SCREEN_HEIGHT - BaseOffset - (GetHeight(g1.tower) * BLOCK_HEIGHT)
        cur == [SetPosition(front, 0, yPos) EXCEPT !.isMoving = TRUE]
        g2 == [g1 EXCEPT !.currentBlock = cur, !.blockQueue = Tail(g1.blockQueue)]
    IN GenerateUpcomingBlocks(g2, 1)
SpawnNextBlock_mut(g) ==
    LET g1 == IF g.blockQueue = <<>> THEN GenerateUpcomingBlocks(g, 1) ELSE g
        front == Head(g1.blockQueue)
        yPos == SCREEN_HEIGHT - BaseOffset - (GetHeight(g1.tower) * BLOCK_HEIGHT)
        cur == [SetPosition(front, 0, yPos) EXCEPT !.isMoving = TRUE,
                                                   !.speed = g1.blockSpeed]
    IN [g1 EXCEPT !.currentBlock = cur, !.blockQueue = Tail(g1.blockQueue)]
SpawnNextBlock(g) ==
    LET g1 == IF g.blockQueue = <<>> THEN GenerateUpcomingBlocks(g, 1) ELSE g
        front == Head(g1.blockQueue)
        yPos == SCREEN_HEIGHT - BaseOffset - (GetHeight(g1.tower) * BLOCK_HEIGHT)
        cur == [SetPosition(front, 0, yPos) EXCEPT !.isMoving = TRUE,
                                                   !.speed = g1.blockSpeed]
        g2 == [g1 EXCEPT !.currentBlock = cur, !.blockQueue = Tail(g1.blockQueue)]
    IN GenerateUpcomingBlocks(g2, 1)

\* x += blockSpeed * direction * deltaTime, deltaTime = dt / TicksPerSecond
Advance(x, speed, dir, dt) == x + (speed * dir * dt) \div TicksPerSecond

UpdateBlockMovement_mutStrict(g, dt) ==
    IF ~g.currentBlock.isMoving THEN g
    ELSE LET moved == [g.currentBlock EXCEPT
                          !.x = Advance(g.currentBlock.x, g.blockSpeed, g.direction, dt)]
             dir == IF GetRight(moved) > SCREEN_WIDTH THEN -1
                    ELSE IF GetLeft(moved) < 0 THEN 1
                    ELSE g.direction
         IN [g EXCEPT !.currentBlock = moved, !.direction = dir]
UpdateBlockMovement_mutLeftEdge(g, dt) ==
    IF ~g.currentBlock.isMoving THEN g
    ELSE LET moved == [g.currentBlock EXCEPT
                          !.x = Advance(g.currentBlock.x, g.blockSpeed, g.direction, dt)]
             dir == IF GetLeft(moved) >= SCREEN_WIDTH THEN -1
                    ELSE IF GetLeft(moved) <= 0 THEN 1
                    ELSE g.direction
         IN [g EXCEPT !.currentBlock = moved, !.direction = dir]
UpdateBlockMovement(g, dt) ==
    IF ~g.currentBlock.isMoving THEN g
    ELSE LET moved == [g.currentBlock EXCEPT
                          !.x = Advance(g.currentBlock.x, g.blockSpeed, g.direction, dt)]
             dir == IF GetRight(moved) >= SCREEN_WIDTH THEN -1
                    ELSE IF GetLeft(moved) <= 0 THEN 1
                    ELSE g.direction
         IN [g EXCEPT !.currentBlock = moved, !.direction = dir]

\* CheckOverlap's two out-parameters and its result
OverlapStart_mut(current, below) == GetLeft(current)
OverlapStart(current, below) == Max(GetLeft(current), GetLeft(below))
OverlapEnd_mut(current, below) == GetRight(current)
OverlapEnd(current, below) == Min(GetRight(current), GetRight(below))
CheckOverlap(current, below) == OverlapEnd(current, below) > OverlapStart(current, below)

\* overlapWidth < originalWidth * 0.1f
TooSmall_mut(overlapWidth, originalWidth) == 100 * overlapWidth < originalWidth
TooSmall(overlapWidth, originalWidth) == 10 * overlapWidth < originalWidth

\* std::abs(overlapWidth - originalWidth) < PERFECT_THRESHOLD
IsPerfect_mut(overlapWidth, originalWidth) == overlapWidth = originalWidth
IsPerfect(overlapWidth, originalWidth) ==
    Abs(overlapWidth - originalWidth) < PERFECT_THRESHOLD

\* 50 + (consecutivePerfects * 10), consecutivePerfects already incremented
PerfectPoints_mut(combo) == 50 + ((combo - 1) * 10)
PerfectPoints(combo) == 50 + (combo * 10)

\* 10 + static_cast<int>(accuracy * 10), accuracy = overlapWidth / originalWidth
TrimPoints(overlapWidth, originalWidth) ==
    10 + ((10 * overlapWidth) \div originalWidth)

\* the game-over branch: gameOver = true; scoreHistory.AddScore(...)
EndGame_mutResetCombo(g) ==
    [g EXCEPT !.gameOver = TRUE,
              !.consecutivePerfects = 0,
              !.scoreHistory = AddScore(g.scoreHistory, g.score,
                                        GetHeight(g.tower) - 1)]
EndGame_mut(g) ==
    [g EXCEPT !.gameOver = TRUE,
              !.scoreHistory = IF g.score = 0 THEN g.scoreHistory
                               ELSE AddScore(g.scoreHistory, g.score,
                                             GetHeight(g.tower) - 1)]
EndGame(g) ==
    [g EXCEPT !.gameOver = TRUE,
              !.scoreHistory = AddScore(g.scoreHistory, g.score,
                                        GetHeight(g.tower) - 1)]

\* the difficulty ramp after a push
SpeedAfterPush_mut(height, speed) ==
    IF (height - 1) % SpeedPeriod = 0 THEN speed + SPEED_INCREMENT ELSE speed
SpeedAfterPush(height, speed) ==
    IF height % SpeedPeriod = 0 THEN speed + SPEED_INCREMENT ELSE speed

TrimAndStackBlock(g) ==
    IF IsEmpty(g.tower)
    THEN SpawnNextBlock([g EXCEPT !.tower = Push(g.tower, g.currentBlock),
                                  !.score = g.score + 10])
    ELSE
    LET topBlock == Top(g.tower)
        overlapStart == OverlapStart(g.currentBlock, topBlock)
        overlapEnd == OverlapEnd(g.currentBlock, topBlock)
        overlapWidth == overlapEnd - overlapStart
        originalWidth == g.currentBlock.width
        trimmedBlock == [g.currentBlock EXCEPT !.x = overlapStart,
                                               !.width = overlapWidth]
        pushed == Push(g.tower, trimmedBlock)
        isPerfect == IsPerfect(overlapWidth, originalWidth)
        combo == IF isPerfect THEN g.consecutivePerfects + 1 ELSE 0
        points == IF isPerfect THEN PerfectPoints(combo)
                  ELSE TrimPoints(overlapWidth, originalWidth)
    IN IF ~CheckOverlap(g.currentBlock, topBlock) THEN EndGame(g)
       ELSE IF TooSmall(overlapWidth, originalWidth) THEN EndGame(g)
       ELSE SpawnNextBlock(
                [g EXCEPT !.tower = pushed,
                          !.consecutivePerfects = combo,
                          !.score = g.score + points,
                          !.blockSpeed = SpeedAfterPush(GetHeight(pushed),
                                                        g.blockSpeed)])

DropBlock(g) ==
    IF ~g.currentBlock.isMoving THEN g
    ELSE TrimAndStackBlock([g EXCEPT !.currentBlock.isMoving = FALSE])

BaseBlock ==
    [Block((SCREEN_WIDTH \div 2) - (INITIAL_BLOCK_WIDTH \div 2),
           SCREEN_HEIGHT - BaseOffset, INITIAL_BLOCK_WIDTH, BLOCK_HEIGHT,
           GetBlockColor(0), 0) EXCEPT !.isMoving = FALSE]

InitializeGame_mutKeepTower(g) ==
    LET g1 == [g EXCEPT !.tower = Push(g.tower, BaseBlock),
                        !.score = 0,
                        !.consecutivePerfects = 0,
                        !.blockSpeed = INITIAL_SPEED,
                        !.direction = 1,
                        !.gameOver = FALSE]
    IN SpawnNextBlock(GenerateUpcomingBlocks(g1, PreviewDepth))
InitializeGame_mut(g) ==
    LET g1 == [g EXCEPT !.tower = Push(Clear(g.tower), BaseBlock),
                        !.score = 0,
                        !.blockSpeed = INITIAL_SPEED,
                        !.gameOver = FALSE]
    IN SpawnNextBlock(GenerateUpcomingBlocks(g1, PreviewDepth))
InitializeGame(g) ==
    LET g1 == [g EXCEPT !.tower = Push(Clear(g.tower), BaseBlock),
                        !.score = 0,
                        !.consecutivePerfects = 0,
                        !.blockSpeed = INITIAL_SPEED,
                        !.direction = 1,
                        !.gameOver = FALSE]
    IN SpawnNextBlock(GenerateUpcomingBlocks(g1, PreviewDepth))

\* Game::Update with the three IsKeyPressed results and GetFrameTime as inputs
UpdateGame_mutPausedDrop(g, in) ==
    IF g.gameOver
    THEN IF in.restart THEN InitializeGame(g) ELSE g
    ELSE LET g1 == IF in.pause THEN [g EXCEPT !.isPaused = ~g.isPaused] ELSE g
             g2 == IF g1.isPaused THEN g1 ELSE UpdateBlockMovement(g1, in.dt)
         IN IF in.drop THEN DropBlock(g2) ELSE g2
UpdateGame_mut(g, in) ==
    IF g.gameOver
    THEN IF in.restart THEN InitializeGame(g) ELSE g
    ELSE LET g1 == IF in.pause THEN [g EXCEPT !.isPaused = ~g.isPaused] ELSE g
             g2 == UpdateBlockMovement(g1, in.dt)
         IN IF g1.isPaused THEN g2
            ELSE IF in.drop THEN DropBlock(g2) ELSE g2
UpdateGame_mutRestartAny(g, in) ==
    IF in.restart THEN InitializeGame(g)
    ELSE IF g.gameOver THEN g
    ELSE LET g1 == IF in.pause THEN [g EXCEPT !.isPaused = ~g.isPaused] ELSE g
         IN IF g1.isPaused THEN g1
            ELSE LET g2 == UpdateBlockMovement(g1, in.dt)
                 IN IF in.drop THEN DropBlock(g2) ELSE g2
UpdateGame_mutDropFirst(g, in) ==
    IF g.gameOver
    THEN IF in.restart THEN InitializeGame(g) ELSE g
    ELSE LET g1 == IF in.pause THEN [g EXCEPT !.isPaused = ~g.isPaused] ELSE g
         IN IF g1.isPaused THEN g1
            ELSE LET g2 == IF in.drop THEN DropBlock(g1) ELSE g1
                 IN UpdateBlockMovement(g2, in.dt)
UpdateGame_mutOverPause(g, in) ==
    IF g.gameOver
    THEN IF in.restart THEN InitializeGame(g)
         ELSE IF in.pause THEN [g EXCEPT !.isPaused = ~g.isPaused] ELSE g
    ELSE LET g1 == IF in.pause THEN [g EXCEPT !.isPaused = ~g.isPaused] ELSE g
         IN IF g1.isPaused THEN g1
            ELSE LET g2 == UpdateBlockMovement(g1, in.dt)
                 IN IF in.drop THEN DropBlock(g2) ELSE g2
UpdateGame(g, in) ==
    IF g.gameOver
    THEN IF in.restart THEN InitializeGame(g) ELSE g
    ELSE LET g1 == IF in.pause THEN [g EXCEPT !.isPaused = ~g.isPaused] ELSE g
         IN IF g1.isPaused THEN g1
            ELSE LET g2 == UpdateBlockMovement(g1, in.dt)
                 IN IF in.drop THEN DropBlock(g2) ELSE g2

\* Game::Game(): the member initialisers, then InitializeGame()
Constructed ==
    InitializeGame(
        [tower |-> EmptyTower, blockQueue |-> <<>>, scoreHistory |-> EmptyHistory,
         currentBlock |-> DefaultBlock, gameOver |-> FALSE, isPaused |-> FALSE,
         score |-> 0, consecutivePerfects |-> 0,
         blockSpeed |-> INITIAL_SPEED, direction |-> 1])

\* which path of Update a tick takes from g with input in
EventOf(g, in) ==
    IF g.gameOver THEN (IF in.restart THEN "restart" ELSE "over")
    ELSE IF (IF in.pause THEN ~g.isPaused ELSE g.isPaused) THEN "paused"
    ELSE IF ~in.drop THEN "move"
    ELSE IF ~UpdateBlockMovement(g, in.dt).currentBlock.isMoving THEN "frozen"
    ELSE IF DropBlock(UpdateBlockMovement(g, in.dt)).gameOver THEN "miss"
    ELSE "stack"

\* -------------------------------------------------------------- the machine
NoKeys == [restart |-> FALSE, pause |-> FALSE, drop |-> FALSE]
\* the keys of an input, without the frame time
KeysOf(in) == [restart |-> in.restart, pause |-> in.pause, drop |-> in.drop]

Install(g) ==
    /\ tower' = g.tower
    /\ blockQueue' = g.blockQueue
    /\ scoreHistory' = g.scoreHistory
    /\ currentBlock' = g.currentBlock
    /\ gameOver' = g.gameOver
    /\ isPaused' = g.isPaused
    /\ score' = g.score
    /\ consecutivePerfects' = g.consecutivePerfects
    /\ blockSpeed' = g.blockSpeed
    /\ direction' = g.direction

Init ==
    /\ tower = Constructed.tower
    /\ blockQueue = Constructed.blockQueue
    /\ scoreHistory = Constructed.scoreHistory
    /\ currentBlock = Constructed.currentBlock
    /\ gameOver = Constructed.gameOver
    /\ isPaused = Constructed.isPaused
    /\ score = Constructed.score
    /\ consecutivePerfects = Constructed.consecutivePerfects
    /\ blockSpeed = Constructed.blockSpeed
    /\ direction = Constructed.direction
    /\ lastKeys = NoKeys
    /\ lastEvent = "init"

\* one frame of the main loop: game.Update() (Draw reads only)
Update(in) ==
    /\ Install(UpdateGame(Game, in))
    /\ lastKeys' = KeysOf(in)
    /\ lastEvent' = EventOf(Game, in)

\* the inputs of a frame: the three IsKeyPressed results and GetFrameTime
Inputs ==
    [restart : BOOLEAN, pause : BOOLEAN, drop : BOOLEAN, dt : {0, FrameTime}]
FineInputs ==
    [restart : {FALSE}, pause : {FALSE}, drop : BOOLEAN, dt : {FineFrameTime}]

\* the bounds on a run: the tower's cap and the number of games
Within(in, maxHeight, maxGames) ==
    /\ in.drop => GetHeight(tower) < maxHeight
    /\ in.restart => GetCount(scoreHistory) < maxGames

Next == \E in \in Inputs : Within(in, MaxHeight, MaxGames) /\ Update(in)

NextFine == \E in \in FineInputs : Within(in, FineMaxHeight, 0) /\ Update(in)

Spec == Init /\ [][Next]_vars

SpecFine == Init /\ [][NextFine]_vars

\* The score log driven through its public interface alone: AddScore with
\* the values a game can record (score >= 0, height >= 0) and Clear.
AddEntry(s, ht) ==
    /\ GetCount(scoreHistory) < MaxLog
    /\ scoreHistory' = AddScore(scoreHistory, s, ht)
    /\ UNCHANGED <<tower, blockQueue, currentBlock, gameOver, isPaused, score,
                   consecutivePerfects, blockSpeed, direction, lastKeys, lastEvent>>
ClearHistory ==
    /\ scoreHistory' = ClearList(scoreHistory)
    /\ UNCHANGED <<tower, blockQueue, currentBlock, gameOver, isPaused, score,
                   consecutivePerfects, blockSpeed, direction, lastKeys, lastEvent>>
NextHistory ==
    \/ \E s \in 0..MaxScore, ht \in 0..MaxEntryHeight : AddEntry(s, ht)
    \/ ClearHistory

SpecHistory == Init /\ [][NextHistory]_vars

\* ------------------------------------------------- vocabulary of the claims
\* every frame time a frame of either specification can carry
AnyFrameTimes == {0, FrameTime, FineFrameTime}

\* the input of this step: the keys it recorded, with frame time dt
InputOf(dt) ==
    [restart |-> lastKeys'.restart, pause |-> lastKeys'.pause,
     drop |-> lastKeys'.drop, dt |-> dt]

\* this step is the frame Update ran with frame time dt
TickBy(dt) == Game' = UpdateGame(Game, InputOf(dt))

\* this step dropped the current block (it reached TrimAndStackBlock)
Dropped == lastEvent' \in {"stack", "miss"}

\* the block A being dropped: the current block after this frame's motion
DropLeft(dt) == currentBlock.x + (blockSpeed * direction * dt) \div TicksPerSecond
DropRight(dt) == DropLeft(dt) + currentBlock.width
\* the tower's top block B
TopLeft == tower.towerStack[Len(tower.towerStack)].x
TopRight == TopLeft + tower.towerStack[Len(tower.towerStack)].width
\* overlapWidth = min(A.right, B.right) - max(A.left, B.left)
OverlapLeft(dt) == IF DropLeft(dt) >= TopLeft THEN DropLeft(dt) ELSE TopLeft
OverlapWidthOf(dt) ==
    (IF DropRight(dt) <= TopRight THEN DropRight(dt) ELSE TopRight) - OverlapLeft(dt)

\* C1: a drop whose overlap with the tower top exceeds 10% of the dropped
\* block's width pushes exactly one block, at x = max(A.left, B.left) with
\* width overlapWidth; the tower grows by one and that block is the new top.
C1_StackPushesOverlap ==
    [][\A dt \in AnyFrameTimes :
          (Dropped /\ TickBy(dt) /\ 10 * OverlapWidthOf(dt) > currentBlock.width)
          => /\ tower'.height = tower.height + 1
             /\ Len(tower'.towerStack) = Len(tower.towerStack) + 1
             /\ SubSeq(tower'.towerStack, 1, Len(tower.towerStack)) = tower.towerStack
             /\ tower'.towerStack[Len(tower'.towerStack)].x = OverlapLeft(dt)
             /\ tower'.towerStack[Len(tower'.towerStack)].width = OverlapWidthOf(dt)
      ]_vars

\* a trimmed block has just been pushed: the top is narrower than the block
\* below it and starts right of it
C1_Witness ==
    /\ lastEvent = "stack"
    /\ tower.height >= 2
    /\ Top(tower).width < tower.towerStack[Len(tower.towerStack) - 1].width
    /\ Top(tower).x > tower.towerStack[Len(tower.towerStack) - 1].x

\* C2: a drop with overlapWidth <= 0 or overlapWidth < 10% of the dropped
\* block's width sets gameOver and appends exactly one history entry holding
\* the score at that moment and towerHeight - 1.
C2_MissEndsGame ==
    [][\A dt \in AnyFrameTimes :
          (Dropped /\ TickBy(dt)
             /\ (OverlapWidthOf(dt) <= 0 \/ 10 * OverlapWidthOf(dt) < currentBlock.width))
          => /\ gameOver'
             /\ scoreHistory'.count = scoreHistory.count + 1
             /\ scoreHistory'.list =
                    <<[score |-> score, height |-> tower.height - 1]>>
                        \o scoreHistory.list
      ]_vars

\* the game has just ended on a block that does overlap the top, by less
\* than 10% of its width
C2_Witness ==
    /\ lastEvent = "miss"
    /\ gameOver
    /\ scoreHistory.count = 1
    /\ LET ow == Min(GetRight(currentBlock), TopRight) - Max(GetLeft(currentBlock), TopLeft)
       IN ow > 0 /\ 10 * ow < currentBlock.width

\* C3: a stacking drop adds 50 + 10 * combo (combo after its increment) when
\* |overlapWidth - originalWidth| < 5 and 10 + floor(10 * overlapWidth /
\* originalWidth) otherwise; an aligned first drop of a fresh session adds 60
\* and a width-200 block dropped at x = 450 over a top at 300..500 adds 12.
C3_ScoreAward ==
    [][\A dt \in AnyFrameTimes :
          (lastEvent' = "stack" /\ TickBy(dt))
          => LET ow == OverlapWidthOf(dt)
                 w == currentBlock.width
                 near == ow - w < 5 /\ w - ow < 5
             IN /\ near => score' = score + 50 + 10 * consecutivePerfects'
                /\ ~near => score' = score + 10 + ((10 * ow) \div w)
                /\ (tower.height = 1 /\ score = 0 /\ consecutivePerfects = 0
                      /\ DropLeft(dt) = 300 /\ w = 200) => score' = 60
                /\ (DropLeft(dt) = 450 /\ w = 200 /\ TopLeft = 300 /\ TopRight = 500)
                      => score' = score + 12
      ]_vars

\* the two examples of the claim have just happened one after the other: an
\* aligned first drop (60), then a width-200 block dropped at x = 450 (12)
C3_Witness ==
    /\ lastEvent = "stack"
    /\ tower.height = 3
    /\ score = 72
    /\ Top(tower).x = 450
    /\ Top(tower).width = 50

\* C4 as stated: consecutivePerfects is never negative, every perfect drop
\* adds exactly 1 to it and every drop that is not perfect resets it to 0,
\* the drop that ends the game included.
C4_AnyDropResets ==
    [][/\ consecutivePerfects >= 0
       /\ consecutivePerfects' >= 0
       /\ \A dt \in AnyFrameTimes :
             (Dropped /\ TickBy(dt))
             => LET ow == OverlapWidthOf(dt)
                    w == currentBlock.width
                    perfect == lastEvent' = "stack" /\ ow - w < 5 /\ w - ow < 5
                IN IF perfect
                   THEN consecutivePerfects' = consecutivePerfects + 1
                   ELSE consecutivePerfects' = 0
      ]_vars

\* C4 amended: consecutivePerfects is never negative, every perfect drop adds
\* exactly 1 to it, every stacking drop that is not perfect resets it to 0,
\* and the drop that ends the game leaves it as it was.
C4_ComboCounter ==
    [][/\ consecutivePerfects >= 0
       /\ consecutivePerfects' >= 0
       /\ \A dt \in AnyFrameTimes :
             (Dropped /\ TickBy(dt))
             => LET ow == OverlapWidthOf(dt)
                    w == currentBlock.width
                    near == ow - w < 5 /\ w - ow < 5
                IN IF lastEvent' = "miss"
                   THEN consecutivePerfects' = consecutivePerfects
                   ELSE IF near
                   THEN consecutivePerfects' = consecutivePerfects + 1
                   ELSE consecutivePerfects' = 0
      ]_vars

\* a second perfect drop in a row, not an exact fit, has just been counted
C4_Witness ==
    /\ lastEvent = "stack"
    /\ consecutivePerfects >= 2
    /\ Top(tower).width < tower.towerStack[Len(tower.towerStack) - 1].width

\* C5: blockSpeed grows by 15 on a stacking drop exactly when the resulting
\* tower height (base included) is a multiple of 5; a restart sets it to 150
\* and no other step changes it; so it is 150 + 15 * (towerHeight div 5) and
\* never below 150.
C5_SpeedRamp ==
    /\ [](blockSpeed >= 150 /\ blockSpeed = 150 + 15 * (tower.height \div 5))
    /\ [][IF lastEvent' = "stack"
          THEN blockSpeed' = blockSpeed + (IF tower'.height % 5 = 0 THEN 15 ELSE 0)
          ELSE IF lastEvent' = "restart"
          THEN blockSpeed' = 150
          ELSE blockSpeed' = blockSpeed
         ]_vars

\* the fourth stacking drop has just raised the speed
C5_Witness ==
    /\ lastEvent = "stack"
    /\ tower.height = 5
    /\ blockSpeed = 165
    /\ currentBlock.speed = 165

\* C6: after every spawn (construction, stacking drop, restart) the pending
\* queue holds at least 3 blocks.
C6_QueueAtLeastPreview == Len(blockQueue) >= 3

\* a block has been spawned by a stacking drop in a game that followed a
\* restart
C6_Witness ==
    /\ lastEvent = "stack"
    /\ scoreHistory.count >= 1
    /\ ~gameOver

\* C7: after every spawn the pending queue holds exactly 3 blocks, whatever
\* the sequence of drops, game-overs and restarts.
C7_QueueSteadyDepth == Len(blockQueue) = 3

\* C8: a restart leaves the tower holding only the base block, score 0,
\* combo 0, the initial speed, direction +1 and gameOver false, and does not
\* touch the score history.
C8_RestartResets ==
    [][lastEvent' = "restart"
       => /\ tower'.height = 1
          /\ Len(tower'.towerStack) = 1
          /\ tower'.towerStack[1].x = 300
          /\ tower'.towerStack[1].width = 200
          /\ ~tower'.towerStack[1].isMoving
          /\ score' = 0
          /\ consecutivePerfects' = 0
          /\ blockSpeed' = 150
          /\ direction' = 1
          /\ ~gameOver'
          /\ scoreHistory' = scoreHistory
      ]_vars

\* a restart has just re-initialised a game whose history holds the game
\* that ended before it
C8_Witness ==
    /\ lastEvent = "restart"
    /\ lastKeys.restart
    /\ scoreHistory.count >= 1
    /\ scoreHistory.list[1].score > 0

\* C9: the history gains exactly one entry on the step that turns gameOver
\* from false to true, and no other step changes it; its count is the length
\* of the list.
C9_OneEntryPerGame ==
    /\ [](scoreHistory.count = Len(scoreHistory.list))
    /\ [][IF ~gameOver /\ gameOver'
          THEN /\ scoreHistory'.count = scoreHistory.count + 1
               /\ Len(scoreHistory'.list) = Len(scoreHistory.list) + 1
               /\ Tail(scoreHistory'.list) = scoreHistory.list
          ELSE scoreHistory' = scoreHistory
         ]_vars

\* the second game of a session has just ended, and it ended with score 0
C9_Witness ==
    /\ lastEvent = "miss"
    /\ gameOver
    /\ scoreHistory.count = 2
    /\ scoreHistory.list[1].score = 0

\* C10: a frame that starts paused and carries no pause toggle changes
\* nothing of the game, whatever its frame time and its drop key.
C10_PausedFrameIsNoOp ==
    [][(isPaused /\ ~lastKeys'.pause)
       => /\ currentBlock' = currentBlock
          /\ direction' = direction
          /\ tower' = tower
          /\ blockQueue' = blockQueue
          /\ score' = score
          /\ consecutivePerfects' = consecutivePerfects
          /\ blockSpeed' = blockSpeed
          /\ gameOver' = gameOver
          /\ scoreHistory' = scoreHistory
          /\ isPaused'
      ]_vars

\* a paused frame with the drop key down and no pause toggle has just run
C10_Witness ==
    /\ lastEvent = "paused"
    /\ isPaused
    /\ lastKeys.drop
    /\ ~lastKeys.pause
    /\ tower.height >= 2

\* C11: once gameOver is true, a frame without a restart request keeps it
\* true and leaves tower, score, current block, pending queue, history and
\* the pause flag as they were, whatever its drop and pause keys; gameOver
\* becomes false again only on a frame that carries a restart request.
C11_GameOverTerminal ==
    [][/\ (gameOver /\ ~lastKeys'.restart)
            => /\ gameOver'
               /\ tower' = tower
               /\ score' = score
               /\ currentBlock' = currentBlock
               /\ blockQueue' = blockQueue
               /\ scoreHistory' = scoreHistory
               /\ isPaused' = isPaused
       /\ (gameOver /\ ~gameOver') => lastKeys'.restart
       /\ (gameOver /\ lastKeys'.restart) => ~gameOver'
      ]_vars

\* a frame with the drop and pause keys down and no restart has just run on
\* an ended game
C11_Witness ==
    /\ gameOver
    /\ lastEvent = "over"
    /\ lastKeys.drop
    /\ lastKeys.pause
    /\ ~lastKeys.restart

\* C12: no frame reads or removes the front of an empty pending queue or
\* reads the top of an empty tower: at every frame boundary both containers
\* are non-empty (SpawnNextBlock's Head and Tail and TrimAndStackBlock's Top
\* are evaluated on them), and the tower's counter agrees with its stack.
C12_NoEmptyContainer ==
    /\ tower.towerStack # <<>>
    /\ tower.height = Len(tower.towerStack)
    /\ blockQueue # <<>>

\* a block has been stacked and the next one spawned in a game that followed
\* a restart, on a tower of at least four blocks
C12_Witness ==
    /\ lastEvent = "stack"
    /\ scoreHistory.count >= 1
    /\ tower.height >= 4

\* C13: all blocks of the pending queue have one width, the width of the
\* tower's top block.
C13_QueueUniformTopWidth ==
    \A i \in 1..Len(blockQueue) :
        blockQueue[i].width = tower.towerStack[Len(tower.towerStack)].width

\* C14: GetBestScore and GetBestHeight return the largest score and the
\* largest height over the entries of the log, each taken on its own (they
\* may come from different entries), and both return 0 on the empty log.
C14_BestIsMaximum ==
    LET list == scoreHistory.list
        bs == GetBestScore(scoreHistory)
        bh == GetBestHeight(scoreHistory)
    IN IF list = <<>>
       THEN bs = 0 /\ bh = 0
       ELSE /\ \E i \in 1..Len(list) : list[i].score = bs
            /\ \A i \in 1..Len(list) : list[i].score <= bs
            /\ \E i \in 1..Len(list) : list[i].height = bh
            /\ \A i \in 1..Len(list) : list[i].height <= bh

\* a log whose best score and best height sit in different entries, none of
\* which holds both
C14_Witness ==
    LET list == scoreHistory.list
    IN /\ Len(list) >= 2
       /\ GetBestScore(scoreHistory) = 2
       /\ GetBestHeight(scoreHistory) = 1
       /\ \A i \in 1..Len(list) : ~(list[i].score = 2 /\ list[i].height = 1)

\* C15: for every log and every n >= 0, GetTopScores(n) lists min(n, count)
\* entries, in descending order of score, each line carrying the score and
\* the height of one entry of the log (distinct lines, distinct entries),
\* and no entry left out has a higher score than a listed one; on the empty
\* log it returns the message "No games played yet!" instead.
C15_TopScores ==
    LET list == scoreHistory.list
        size == Len(list)
    IN \A n \in 0..MaxN : \A out \in GetTopScores(scoreHistory, n) :
         IF GetCount(scoreHistory) = 0
         THEN out.text = "No games played yet!" /\ out.lines = <<>>
         ELSE LET k == IF n < size THEN n ELSE size
              IN /\ out.text = "Top Scores:"
                 /\ out.top = k
                 /\ Len(out.lines) = k
                 /\ \A i \in 1..k : out.lines[i].rank = i
                 /\ \A i, j \in 1..k :
                        i < j => out.lines[i].score >= out.lines[j].score
                 /\ \E f \in [1..k -> 1..size] :
                        /\ \A i, j \in 1..k : i # j => f[i] # f[j]
                        /\ \A i \in 1..k :
                              /\ out.lines[i].score = list[f[i]].score
                              /\ out.lines[i].height = list[f[i]].height
                        /\ \A e \in 1..size :
                              (\A i \in 1..k : f[i] # e)
                                 => \A i \in 1..k : list[e].score <= list[f[i]].score

\* a log of three entries, neither sorted nor reverse sorted, whose top 2
\* are the entries with scores 2 and 1 and their own heights
C15_Witness ==
    /\ scoreHistory.list = <<[score |-> 1, height |-> 0],
                             [score |-> 2, height |-> 1],
                             [score |-> 0, height |-> 1]>>
    /\ GetTopScores(scoreHistory, 2) =
          {[text |-> "Top Scores:", top |-> 2,
            lines |-> <<[rank |-> 1, score |-> 2, height |-> 1],
                        [rank |-> 2, score |-> 1, height |-> 0]>>]}

\* C16: a frame of a running game handles the pause key before the paused
\* check, and the paused check before motion and drop.  With the pause and
\* drop keys both down: on an unpaused game the frame only sets isPaused (no
\* motion, no drop); on a paused game it clears isPaused, moves the block and
\* drops it where that motion has carried it.
C16_FrameOrder ==
    [][(~gameOver /\ lastKeys'.pause /\ lastKeys'.drop)
         => IF ~isPaused
            THEN /\ isPaused'
                 /\ currentBlock' = currentBlock
                 /\ direction' = direction
                 /\ tower' = tower
                 /\ blockQueue' = blockQueue
                 /\ score' = score
                 /\ scoreHistory' = scoreHistory
                 /\ ~gameOver'
            ELSE /\ ~isPaused'
                 /\ Dropped
                 /\ \A dt \in AnyFrameTimes :
                       TickBy(dt) =>
                         IF 10 * OverlapWidthOf(dt) < currentBlock.width
                         THEN /\ gameOver'
                              /\ tower' = tower
                              /\ currentBlock'.x = DropLeft(dt)
                         ELSE /\ ~gameOver'
                              /\ tower'.height = tower.height + 1
                              /\ tower'.towerStack[Len(tower'.towerStack)].x
                                    = OverlapLeft(dt)
                              /\ tower'.towerStack[Len(tower'.towerStack)].width
                                    = OverlapWidthOf(dt)
      ]_vars

\* a frame with both keys down has just unpaused the game and stacked a
\* trimmed block
C16_Witness ==
    /\ lastKeys.pause
    /\ lastKeys.drop
    /\ lastEvent = "stack"
    /\ ~isPaused
    /\ tower.height >= 2
    /\ tower.towerStack[Len(tower.towerStack)].width < INITIAL_BLOCK_WIDTH

\* C17: every spawn (after a stacked drop, and in a restart) makes the front
\* of the pending queue the current block, keeps the rest of the queue in
\* order, and places the block at x = 0, y = baseY - towerHeight * 30, moving,
\* with speed equal to blockSpeed as it is after the drop's speed increase.
C17_SpawnFromFront ==
    [][(lastEvent' \in {"stack", "restart"})
         => /\ currentBlock' =
                  [blockQueue[1] EXCEPT
                      !.x = 0,
                      !.y = (SCREEN_HEIGHT - BaseOffset) - (tower'.height * BLOCK_HEIGHT),
                      !.isMoving = TRUE,
                      !.speed = blockSpeed']
            /\ Len(blockQueue') >= Len(blockQueue) - 1
            /\ \A i \in 2..Len(blockQueue) : blockQueue'[i - 1] = blockQueue[i]
      ]_vars

\* the drop that brought the tower to five blocks raised blockSpeed to 165
\* and the block spawned by it carries that speed, at x = 0 on the sixth row
C17_Witness ==
    /\ lastEvent = "stack"
    /\ tower.height = 5
    /\ blockSpeed = INITIAL_SPEED + SPEED_INCREMENT
    /\ currentBlock.speed = INITIAL_SPEED + SPEED_INCREMENT
    /\ currentBlock.x = 0
    /\ currentBlock.y = 350
    /\ currentBlock.isMoving

\* C18: direction is always -1 or +1.  A frame that moves the block sets it
\* from the advanced position alone: -1 if x + width >= 800, else +1 if
\* x <= 0, else unchanged; the drop and the spawn that may follow in the same
\* frame leave it as the motion set it, and paused and game-over frames
\* without a restart leave it unchanged.
C18_DirectionAtEdges ==
    [][/\ direction \in {-1, 1}
       /\ direction' \in {-1, 1}
       /\ (lastEvent' \in {"move", "stack", "miss"})
            => \A dt \in AnyFrameTimes :
                  TickBy(dt) =>
                    direction' = IF DropRight(dt) >= SCREEN_WIDTH THEN -1
                                 ELSE IF DropLeft(dt) <= 0 THEN 1
                                 ELSE direction
       /\ (lastEvent' \in {"paused", "over"}) => direction' = direction
      ]_vars

\* a block was stacked while the blocks travel leftwards: the next block
\* stands at x = 0 and direction is still -1
C18_Witness ==
    /\ lastEvent = "stack"
    /\ direction = -1
    /\ currentBlock.x = 0
    /\ currentBlock.isMoving

\* C19: with every frame displacing the block by at most
\* m = blockSpeed * frame time, the current block's x stays within
\* [-m, 800 - width + m], a block spawned at x = 0 while direction is -1
\* included.
C19_OvershootBounded ==
    LET m == (blockSpeed * FineFrameTime) \div TicksPerSecond
    IN /\ currentBlock.x >= -m
       /\ currentBlock.x <= (SCREEN_WIDTH - currentBlock.width) + m

\* a block spawned at x = 0 while direction was -1 has made its first move,
\* to the lower limit -m, and has been turned round
C19_Witness ==
    /\ lastEvent = "move"
    /\ tower.height >= 2
    /\ currentBlock.x < 0
    /\ currentBlock.x = -((blockSpeed * FineFrameTime) \div TicksPerSecond)
    /\ direction = 1

\* C20: on a frame of a running game, paused or not, the restart key does
\* nothing: the frame leaves the game exactly as the same frame without the
\* restart key does, the tower and the score are not reset and no new game
\* is started.
C20_RestartOnlyWhenOver ==
    [][(~gameOver /\ lastKeys'.restart)
         => /\ \A dt \in AnyFrameTimes :
                  TickBy(dt) =>
                    Game' = UpdateGame(Game, [InputOf(dt) EXCEPT !.restart = FALSE])
            /\ tower'.height >= tower.height
            /\ score' >= score
            /\ scoreHistory'.count >= scoreHistory.count
            /\ lastEvent' # "restart"
      ]_vars

\* the restart key was down on the frame that stacked a block on a tower
\* that keeps its blocks and its score
C20_Witness ==
    /\ lastKeys.restart
    /\ lastEvent = "stack"
    /\ tower.height >= 3
    /\ score > 0

\* C21: at every frame boundary the tower is non-empty and its bottom element
\* is the base block: 200 wide at x = 300, not moving.  A stacking drop adds
\* exactly one element on top of the elements already there, a restart
\* leaves the base alone, and every other frame leaves the tower as it is; so
\* the height is 1 plus the number of stacking drops since the last
\* initialization.
C21_BaseAndGrowth ==
    [][/\ tower.height >= 1
       /\ tower'.height >= 1
       /\ tower.towerStack[1] = BaseBlock
       /\ tower'.towerStack[1] = BaseBlock
       /\ tower'.towerStack[1].x = 300
       /\ tower'.towerStack[1].width = 200
       /\ ~tower'.towerStack[1].isMoving
       /\ (lastEvent' = "stack")
            => /\ tower'.height = tower.height + 1
               /\ Len(tower'.towerStack) = tower.height + 1
               /\ SubSeq(tower'.towerStack, 1, tower.height) = tower.towerStack
       /\ (lastEvent' = "restart")
            => /\ tower'.height = 1
               /\ Len(tower'.towerStack) = 1
       /\ (lastEvent' \notin {"stack", "restart"}) => tower' = tower
      ]_vars

\* in a game started by a restart three blocks have been stacked on the base
C21_Witness ==
    /\ lastEvent = "stack"
    /\ scoreHistory.count >= 1
    /\ tower.height = 4
    /\ Len(tower.towerStack) = 4
    /\ tower.towerStack[1] = BaseBlock
    /\ tower.towerStack[2].width < INITIAL_BLOCK_WIDTH

\* C22: right after the first initialization and after every restart the
\* current block has the initial width 200, the width of the base block.
C22_FirstBlockInitialWidth ==
    (lastEvent \in {"init", "restart"})
        => currentBlock.width = INITIAL_BLOCK_WIDTH

\* C23: every block of the tower has a width above 0, and every block above
\* the base lies within the block directly below it: its left edge is not
\* left of, and its right edge not right of, the lower block's edges; so the
\* widths do not increase from bottom to top.
C23_TowerNested ==
    LET st == tower.towerStack
    IN /\ \A i \in 1..Len(st) : st[i].width > 0
       /\ \A i \in 2..Len(st) :
             /\ st[i].x >= st[i - 1].x
             /\ st[i].x + st[i].width <= st[i - 1].x + st[i - 1].width
             /\ st[i].width <= st[i - 1].width

\* a tower of four blocks, each strictly narrower than the one below, the
\* second trimmed on its left and the top one on its right
C23_Witness ==
    LET st == tower.towerStack
    IN /\ Len(st) = 4
       /\ \A i \in 2..4 : st[i].width < st[i - 1].width
       /\ st[2].x > st[1].x
       /\ st[4].x + st[4].width < st[3].x + st[3].width

\* C24: a drop that ends the game changes only gameOver, the current block's
\* isMoving flag and the history: after the frame's motion, the tower, the
\* score, the combo counter, blockSpeed, direction and the pending queue are
\* as before the drop, and the current block is still the dropped block, at
\* the place where it was dropped (no new block is spawned).
C24_MissChangesLittle ==
    [][(lastEvent' = "miss")
         => /\ gameOver'
            /\ ~currentBlock'.isMoving
            /\ tower' = tower
            /\ score' = score
            /\ consecutivePerfects' = consecutivePerfects
            /\ blockSpeed' = blockSpeed
            /\ blockQueue' = blockQueue
            /\ scoreHistory'.count = scoreHistory.count + 1
            /\ \A dt \in AnyFrameTimes :
                  TickBy(dt) =>
                    /\ currentBlock' = [currentBlock EXCEPT !.x = DropLeft(dt),
                                                            !.isMoving = FALSE]
                    /\ direction' = UpdateBlockMovement(Game, dt).direction
      ]_vars

\* a game has just ended by a missed drop with a running combo, two blocks
\* stacked and points on the score
C24_Witness ==
    /\ lastEvent = "miss"
    /\ gameOver
    /\ ~currentBlock.isMoving
    /\ consecutivePerfects >= 1
    /\ tower.height = 3
    /\ score > 0
    /\ scoreHistory.count = 1

\* C25: at every frame boundary gameOver and isPaused are not both true; a
\* frame that ends the game leaves it unpaused, a game-over frame does not
\* set isPaused, and the game a restart starts is unpaused.
C25_NeverOverAndPaused ==
    /\ ~(gameOver /\ isPaused)
    /\ (lastEvent \in {"miss", "over", "restart"}) => ~isPaused

\* the pause key was down on the frame that ended the game: the frame
\* unpaused the game first and then dropped the block, which missed
C25_Witness ==
    /\ lastEvent = "miss"
    /\ lastKeys.pause
    /\ lastKeys.drop
    /\ gameOver
    /\ ~isPaused

TypeOK ==
    /\ direction \in {-1, 1}
    /\ gameOver \in BOOLEAN
    /\ isPaused \in BOOLEAN
    /\ GetHeight(tower) = Len(tower.towerStack)
    /\ GetCount(scoreHistory) = Len(scoreHistory.list)

====
